---- MODULE Spec2Model ----
(***************************************************************************)
(* The dependency-injection container of the SMS manager API               *)
(* (api/pkg/di/container.go) and the event dispatch it wires together.     *)
(*                                                                         *)
(* container.go is modelled from its source.  The dispatcher               *)
(* (services.EventDispatcher), the listener groups (package listeners)     *)
(* and the event-listener-log repository are called by container.go but    *)
(* live in other packages; they are modelled from the specification of    *)
(* the event dispatch (its sections 3 to 7).                               *)
(***************************************************************************)
EXTENDS Naturals, Sequences, FiniteSets, Bags, TLC

(***************************************************************************)
(* Bounds of the model.                                                    *)
(***************************************************************************)
\* number of distinct event ids a request may publish
MaxEvents == 1
\* number of Publish calls made after startup
MaxPublish == 2
\* number of request-time resolution calls on the container
MaxCalls == 2
\* number of Publish / accessor calls started by the concurrent requests
MaxOps == 2

(***************************************************************************)
(* Names.                                                                  *)
(***************************************************************************)
Groups == {"Message", "MessageThread", "Heartbeat"}
EventTypes == {"message.sent", "thread.updated"}
ListenerNames == {"store-message", "update-thread", "update-heartbeat-timestamp"}
EventIDs == 1..MaxEvents
Threads == {"r1", "r2"}
Outcomes == {"ok", "error", "panic"}

\* the type of an event is fixed by the event (an event is immutable)
TypeOf(e) == IF e % 2 = 1 THEN "message.sent" ELSE "thread.updated"

\* the three memoized fields of Container (container.go:33-39)
Singletons == {"App", "DB", "EventDispatcher"}
Services == {"MessageService", "MessageThreadService", "HeartbeatService"}
Components ==
  Singletons \cup Services \cup
  {"Logger", "Tracer", "MessageHandlerValidator", "HeartbeatHandler",
   "HeartbeatHandlerValidator", "MessageThreadHandler",
   "MessageThreadHandlerValidator", "MessageRepository",
   "MessageThreadRepository", "EventRepository",
   "EventListenerLogRepository", "MessageHandler", "HeartbeatRepository"}

VARIABLES
  pc,          \* the statement of NewContainer that runs next, "returned" or "fatal"
  routes,      \* what listeners.New*Listener return: group -> (event type -> listener name)
  container,   \* Container.app, .db, .eventDispatcher: instance id, 0 is nil
  made,        \* component -> number of instances constructed so far
  wired,       \* the services constructed so far, each with the dispatcher it was given
  listeners,   \* dispatcher instance -> subscription table (event type -> handlers)
  appRoutes,   \* the routes added to the fiber apps, in order of registration
  log,         \* the event-listener-log store: a bag of rows
  done,        \* <<event id, listener name>> -> number of successful side effects
  lastPublish, \* the outcome of the latest Publish
  published,   \* number of Publish calls so far
  calls,       \* number of request-time resolution calls so far
  lastCall,    \* the latest request-time resolution call and the instance it got
  th           \* the position of each concurrent request

vars == <<pc, routes, container, made, wired, listeners, appRoutes, log, done,
          lastPublish, published, calls, lastCall, th>>

(***************************************************************************)
(* Resolution of components: the accessor methods of Container.            *)
(***************************************************************************)
\* the accessors an accessor calls to build its component, in call order
Deps(x) ==
  CASE x = "Tracer" -> <<"Logger">>
    [] x = "MessageHandlerValidator" -> <<"Logger", "Tracer">>
    [] x = "HeartbeatHandler" ->
         <<"Logger", "Tracer", "HeartbeatHandlerValidator", "HeartbeatService">>
    [] x = "HeartbeatHandlerValidator" -> <<"Logger", "Tracer">>
    [] x = "MessageThreadHandler" ->
         <<"Logger", "Tracer", "MessageThreadHandlerValidator", "MessageThreadService">>
    [] x = "MessageThreadHandlerValidator" -> <<"Logger", "Tracer">>
    [] x = "EventDispatcher" -> <<"Logger", "Tracer", "EventRepository">>
    [] x = "MessageRepository" -> <<"Logger", "Tracer", "DB">>
    [] x = "MessageThreadRepository" -> <<"Logger", "Tracer", "DB">>
    [] x = "EventRepository" -> <<"Logger", "Tracer", "DB">>
    [] x = "EventListenerLogRepository" -> <<"Logger", "Tracer", "DB">>
    [] x = "HeartbeatRepository" -> <<"Logger", "Tracer", "DB">>
    [] x = "HeartbeatService" -> <<"Logger", "Tracer", "HeartbeatRepository">>
    [] x = "MessageThreadService" -> <<"Logger", "Tracer", "MessageThreadRepository">>
    [] x = "MessageHandler" ->
         <<"Logger", "Tracer", "MessageHandlerValidator", "MessageService">>
    [] x = "MessageService" ->
         <<"Logger", "Tracer", "MessageRepository", "EventDispatcher">>
    [] OTHER -> <<>>

\* a dispatcher that forgets the instance it built
NeverCached(x, s) == x \in {"App", "DB"} /\ s.container[x] # 0

\* `if container.app != nil { return container.app }` and its two siblings
IsCached(x, s) == x \in Singletons /\ s.container[x] # 0

\* the subscription table of a new dispatcher
EmptyTable == [t \in EventTypes |-> <<>>]

\* the dispatcher among the constructor arguments of a service, 0 when it gets none
DispatcherArg(x, ids) ==
  IF \E i \in 1..Len(Deps(x)) : Deps(x)[i] = "EventDispatcher"
  THEN ids[CHOOSE i \in 1..Len(Deps(x)) : Deps(x)[i] = "EventDispatcher"]
  ELSE 0

\* the container and everything built through it, as one value
Cur ==
  [container |-> container, made |-> made, wired |-> wired, listeners |-> listeners]

RECURSIVE Resolve(_, _), ResolveAll(_, _), Construct(_, _)

\* the body of accessor x past its nil check: resolve the constructor's arguments,
\* build the component, store it in the container when x is one of the three fields
Construct(x, s) ==
  LET r == ResolveAll(Deps(x), s)
      n == r.st.made[x] + 1
  IN [st |->
        [container |->
           IF x \in Singletons
           THEN [r.st.container EXCEPT ![x] = n] ELSE r.st.container,
         made |-> [r.st.made EXCEPT ![x] = n],
         wired |->
           IF x \in Services
           THEN r.st.wired \cup
                  {[service |-> x, dispatcher |-> DispatcherArg(x, r.ids)]}
           ELSE r.st.wired,
         listeners |->
           IF x = "EventDispatcher"
           THEN Append(r.st.listeners, EmptyTable) ELSE r.st.listeners],
      id |-> n]

\* one accessor call container.X(): the state after it and the instance it returns
Resolve(x, s) ==
  IF IsCached(x, s) THEN [st |-> s, id |-> s.container[x]] ELSE Construct(x, s)

\* the arguments of a constructor call, evaluated left to right
ResolveAll(xs, s) ==
  IF xs = <<>>
  THEN [st |-> s, ids |-> <<>>]
  ELSE LET r == Resolve(Head(xs), s)
       IN IF r.id = 0
          THEN [st |-> r.st, ids |-> <<>>]
          ELSE LET rest == ResolveAll(Tail(xs), r.st)
               IN [st |-> rest.st, ids |-> <<r.id>> \o rest.ids]

(***************************************************************************)
(* EventDispatcher.Subscribe.                                              *)
(***************************************************************************)
\* the listener a group registers for an event type
Handler(g, t) == [group |-> g, name |-> routes[g][t]]

\* a listener of that name is already registered for the event type
SubscribeRejects(table, t, h) ==
  \E i \in 1..Len(table[t]) : table[t][i].name = h.name

\* the table with the handler registered last for the event type
Subscribe(table, t, h) == [table EXCEPT ![t] = Append(@, h)]

\* the orders in which `range routes` may visit the keys of a map
Orders(keys) ==
  {o \in [1..Cardinality(keys) -> keys] :
     \A i, j \in 1..Cardinality(keys) : o[i] = o[j] => i = j}

RECURSIVE SubscribeRoutesLenient(_, _, _)

\* a loop that goes on to the next route when Subscribe rejects one
SubscribeRoutesLenient(g, order, r) ==
  IF order = <<>>
  THEN r
  ELSE LET d == Resolve("EventDispatcher", r.st)
           table == d.st.listeners[d.id]
           h == Handler(g, Head(order))
       IN SubscribeRoutesLenient(g, Tail(order),
            [st |-> IF SubscribeRejects(table, Head(order), h) THEN d.st
                    ELSE [d.st EXCEPT !.listeners[d.id] = Subscribe(table, Head(order), h)],
             fatal |-> FALSE])

RECURSIVE SubscribeRoutes(_, _, _)

\* `for event, handler := range routes { container.EventDispatcher().Subscribe(event, handler) }`
SubscribeRoutes(g, order, r) ==
  IF order = <<>> \/ r.fatal
  THEN r
  ELSE LET d == Resolve("EventDispatcher", r.st)
           table == d.st.listeners[d.id]
           h == Handler(g, Head(order))
       IN IF SubscribeRejects(table, Head(order), h)
          THEN [st |-> d.st, fatal |-> TRUE]
          ELSE SubscribeRoutes(g, Tail(order),
                 [st |-> [d.st EXCEPT !.listeners[d.id] = Subscribe(table, Head(order), h)],
                  fatal |-> FALSE])

(***************************************************************************)
(* NewContainer.                                                           *)
(***************************************************************************)
\* requests accepted while NewContainer still registers the heartbeat listeners
ServingEarly == pc \in {"RegisterHeartbeatListeners", "RegisterSwaggerRoutes", "returned"}

\* NewContainer has returned the container: the caller serves requests with it
Serving == pc = "returned"

\* the Swagger routes registered before the heartbeat routes
SwaggerEarly(stmt) ==
  CASE stmt = "RegisterMessageListeners" -> "RegisterMessageRoutes"
    [] stmt = "RegisterMessageRoutes" -> "RegisterMessageThreadRoutes"
    [] stmt = "RegisterMessageThreadRoutes" -> "RegisterMessageThreadListeners"
    [] stmt = "RegisterMessageThreadListeners" -> "RegisterSwaggerRoutes"
    [] stmt = "RegisterSwaggerRoutes" -> "RegisterHeartbeatRoutes"
    [] stmt = "RegisterHeartbeatRoutes" -> "RegisterHeartbeatListeners"
    [] stmt = "RegisterHeartbeatListeners" -> "returned"

\* the heartbeat listeners registered before the message-thread listeners
HeartbeatFirst(stmt) ==
  CASE stmt = "RegisterMessageListeners" -> "RegisterMessageRoutes"
    [] stmt = "RegisterMessageRoutes" -> "RegisterMessageThreadRoutes"
    [] stmt = "RegisterMessageThreadRoutes" -> "RegisterHeartbeatListeners"
    [] stmt = "RegisterHeartbeatListeners" -> "RegisterMessageThreadListeners"
    [] stmt = "RegisterMessageThreadListeners" -> "RegisterHeartbeatRoutes"
    [] stmt = "RegisterHeartbeatRoutes" -> "RegisterSwaggerRoutes"
    [] stmt = "RegisterSwaggerRoutes" -> "returned"

\* route registration left to the caller of NewContainer
ListenersOnly(stmt) ==
  CASE stmt = "RegisterMessageListeners" -> "RegisterMessageThreadListeners"
    [] stmt = "RegisterMessageThreadListeners" -> "RegisterHeartbeatListeners"
    [] stmt = "RegisterHeartbeatListeners" -> "returned"

\* the statement of NewContainer that follows stmt
NextStatement(stmt) ==
  CASE stmt = "RegisterMessageListeners" -> "RegisterMessageRoutes"
    [] stmt = "RegisterMessageRoutes" -> "RegisterMessageThreadRoutes"
    [] stmt = "RegisterMessageThreadRoutes" -> "RegisterMessageThreadListeners"
    [] stmt = "RegisterMessageThreadListeners" -> "RegisterHeartbeatRoutes"
    [] stmt = "RegisterHeartbeatRoutes" -> "RegisterHeartbeatListeners"
    [] stmt = "RegisterHeartbeatListeners" -> "RegisterSwaggerRoutes"
    [] stmt = "RegisterSwaggerRoutes" -> "returned"

\* the variables no statement of NewContainer touches
RuntimeUnchanged ==
  UNCHANGED <<routes, log, done, lastPublish, published, calls, lastCall, th>>

\* logger.Fatal: the process exits
Fatal == pc' = "fatal" /\ UNCHANGED <<container, made, wired, listeners, appRoutes>>

\* the statement ran to its end with the container as s
Commit(s) ==
  /\ pc' = NextStatement(pc)
  /\ container' = s.container
  /\ made' = s.made
  /\ wired' = s.wired
  /\ listeners' = s.listeners

\* gorm.Open or a migration fails while this statement builds the database handle
OpensDB(dbUp) == container["DB"] = 0 /\ ~dbUp

\* Register<g>Listeners: build the listener group, subscribe each of its routes
RegisterListeners(g, args) ==
  \E order \in Orders(DOMAIN routes[g]), dbUp \in BOOLEAN :
    LET built == ResolveAll(args, Cur).st
        r == SubscribeRoutes(g, order, [st |-> built, fatal |-> FALSE])
    IN /\ IF OpensDB(dbUp) \/ r.fatal THEN Fatal ELSE Commit(r.st)
       /\ UNCHANGED appRoutes
       /\ RuntimeUnchanged

\* Register<h>Routes: container.<h>().RegisterRoutes(container.App().Group("v1"))
RegisterRoutes(h) ==
  \E dbUp \in BOOLEAN :
    LET handler == Resolve(h, Cur)
        app == Resolve("App", handler.st)
    IN /\ IF OpensDB(dbUp)
          THEN Fatal
          ELSE /\ Commit(app.st)
               /\ appRoutes' = Append(appRoutes, [app |-> app.id, route |-> h])
       /\ RuntimeUnchanged

RegisterMessageListeners ==
  /\ pc = "RegisterMessageListeners"
  /\ RegisterListeners("Message",
       <<"Logger", "Tracer", "MessageService", "EventListenerLogRepository">>)

RegisterMessageRoutes ==
  /\ pc = "RegisterMessageRoutes"
  /\ RegisterRoutes("MessageHandler")

RegisterMessageThreadRoutes ==
  /\ pc = "RegisterMessageThreadRoutes"
  /\ RegisterRoutes("MessageThreadHandler")

RegisterMessageThreadListeners ==
  /\ pc = "RegisterMessageThreadListeners"
  /\ RegisterListeners("MessageThread",
       <<"Logger", "Tracer", "MessageThreadService", "EventListenerLogRepository">>)

RegisterHeartbeatRoutes ==
  /\ pc = "RegisterHeartbeatRoutes"
  /\ RegisterRoutes("HeartbeatHandler")

RegisterHeartbeatListeners ==
  /\ pc = "RegisterHeartbeatListeners"
  /\ RegisterListeners("Heartbeat", <<"Logger", "Tracer", "HeartbeatService">>)

\* container.App().Get("/*", swagger.HandlerDefault)
RegisterSwaggerRoutes ==
  /\ pc = "RegisterSwaggerRoutes"
  /\ LET app == Resolve("App", Cur)
     IN /\ Commit(app.st)
        /\ appRoutes' = Append(appRoutes, [app |-> app.id, route |-> "/*"])
  /\ RuntimeUnchanged

NewContainer ==
  \/ RegisterMessageListeners
  \/ RegisterMessageRoutes
  \/ RegisterMessageThreadRoutes
  \/ RegisterMessageThreadListeners
  \/ RegisterHeartbeatRoutes
  \/ RegisterHeartbeatListeners
  \/ RegisterSwaggerRoutes

(***************************************************************************)
(* The event-listener log and the wrapper of a listener.                   *)
(***************************************************************************)
\* the listener groups NewMessageListener / NewMessageThreadListener /
\* NewHeartbeatListener are given container.EventListenerLogRepository()
HasLogRepository(g) == g \in {"Message", "MessageThread"}

Row(e, n, status) == [eventID |-> e, listener |-> n, status |-> status]

\* FindByEventAndListener: the rows of the pair
RowsOf(l, e, n) == {r \in BagToSet(l) : r.eventID = e /\ r.listener = n}

HasSuccess(l, e, n) == \E r \in RowsOf(l, e, n) : r.status = "success"

\* a Save that inserts a new row whatever the store holds
SaveInsert(l, row) == l (+) SetToBag({row})

\* Save: an upsert on (eventID, listenerName)
Save(l, row) ==
  LET others == BagToSet(l) \ RowsOf(l, row.eventID, row.listener)
  IN [r \in others |-> l[r]] (+) SetToBag({row})

\* one more successful side effect of listener n for event e
Ran(d, e, n) == [d EXCEPT ![<<e, n>>] = @ + 1]

\* the wrapper of listener h invoked with event e, its side effect ending as out:
\* the log and the side-effect count after it, and the error it returns
Deliver(h, e, out, s) ==
  IF ~HasLogRepository(h.group)
  THEN [log |-> s.log,
        done |-> IF out = "ok" THEN Ran(s.done, e, h.name) ELSE s.done,
        err |-> IF out = "ok" THEN "nil" ELSE out]
  ELSE IF HasSuccess(s.log, e, h.name)
  THEN [log |-> s.log, done |-> s.done, err |-> "nil"]
  ELSE LET pending == Save(s.log, Row(e, h.name, "pending"))
       IN CASE out = "ok" ->
                 [log |-> Save(pending, Row(e, h.name, "success")),
                  done |-> Ran(s.done, e, h.name), err |-> "nil"]
            [] out = "error" ->
                 [log |-> Save(pending, Row(e, h.name, "failed")),
                  done |-> s.done, err |-> "error"]
            [] out = "panic" ->
                 [log |-> pending, done |-> s.done, err |-> "panic"]

(***************************************************************************)
(* EventDispatcher.Publish.                                                *)
(***************************************************************************)
\* a handler's failure ends the iteration
StopsAtFailure(err) == err # "nil"

\* whether Publish leaves the loop after a handler returned err
StopsAfter(err) == FALSE

RECURSIVE RunHandlers(_, _, _, _)

\* the handlers hs invoked in order for event e, handler i ending as outs[i]
RunHandlers(hs, e, outs, acc) ==
  IF Len(acc.invoked) = Len(hs)
  THEN acc
  ELSE LET i == Len(acc.invoked) + 1
           r == Deliver(hs[i], e, outs[i], acc)
           after == [log |-> r.log, done |-> r.done,
                     invoked |-> Append(acc.invoked, hs[i]),
                     errors |-> IF r.err = "nil" THEN acc.errors
                                ELSE Append(acc.errors, <<hs[i].name, r.err>>)]
       IN IF StopsAfter(r.err) THEN after ELSE RunHandlers(hs, e, outs, after)

\* the dispatchers the services that serve requests were built with
PublishingDispatchers == {w.dispatcher : w \in {x \in wired : x.dispatcher # 0}}

\* a request makes a service publish event e; Publish runs every listener of its type
Publish ==
  /\ Serving
  /\ published < MaxPublish
  /\ \E d \in PublishingDispatchers, e \in EventIDs :
       LET hs == listeners[d][TypeOf(e)]
       IN \E outs \in [1..Len(hs) -> Outcomes] :
            LET r == RunHandlers(hs, e, outs,
                       [log |-> log, done |-> done, invoked |-> <<>>, errors |-> <<>>])
            IN /\ log' = r.log
               /\ done' = r.done
               /\ lastPublish' =
                    [event |-> e, dispatcher |-> d, outs |-> outs,
                     invoked |-> r.invoked, errors |-> r.errors,
                     ok |-> r.errors = <<>>]
  /\ published' = published + 1
  /\ UNCHANGED <<pc, routes, container, made, wired, listeners, appRoutes,
                 calls, lastCall, th>>

(***************************************************************************)
(* Resolution calls made after startup.                                    *)
(***************************************************************************)
\* some caller resolves component x from the container
ResolveCall ==
  /\ Serving
  /\ calls < MaxCalls
  /\ \E x \in Components :
       LET r == Resolve(x, Cur)
       IN /\ container' = r.st.container
          /\ made' = r.st.made
          /\ wired' = r.st.wired
          /\ listeners' = r.st.listeners
          /\ lastCall' = [component |-> x, id |-> r.id, before |-> made[x]]
  /\ calls' = calls + 1
  /\ UNCHANGED <<pc, routes, appRoutes, log, done, lastPublish, published, th>>

(***************************************************************************)
(* Concurrent requests: each runs on its own goroutine and either resolves *)
(* one of the memoized components or publishes an event, one step at a     *)
(* time.                                                                   *)
(***************************************************************************)
Idle == [op |-> "idle", at |-> "none", x |-> "none", got |-> 0,
         e |-> 0, d |-> 0, i |-> 0, out |-> "none", errors |-> <<>>]

ThreadUnchanged ==
  UNCHANGED <<pc, routes, appRoutes, lastPublish, published, calls, lastCall>>

\* the goroutine has answered its request and may serve the next one
Ready(t) == th[t].op \in {"idle", "resolved", "published"}

\* `if container.x != nil`: the request reads the field
ReadField(t) ==
  /\ Serving
  /\ Ready(t)
  /\ calls < MaxOps
  /\ \E x \in Singletons :
       th' = [th EXCEPT ![t] = [Idle EXCEPT !.op = "resolve", !.x = x,
                                !.got = IF IsCached(x, Cur) THEN container[x] ELSE 0]]
  /\ UNCHANGED <<container, made, wired, listeners, log, done>>
  /\ calls' = calls + 1
  /\ UNCHANGED <<pc, routes, appRoutes, lastPublish, published, lastCall>>

\* the rest of the accessor: return what was read, or build, store and return
FinishAccessor(t) ==
  /\ th[t].op = "resolve"
  /\ LET r == IF th[t].got # 0
              THEN [st |-> Cur, id |-> th[t].got]
              ELSE Construct(th[t].x, Cur)
     IN /\ container' = r.st.container
        /\ made' = r.st.made
        /\ wired' = r.st.wired
        /\ listeners' = r.st.listeners
        /\ th' = [th EXCEPT ![t] = [Idle EXCEPT !.op = "resolved", !.x = th[t].x,
                                    !.got = r.id]]
  /\ UNCHANGED <<log, done>>
  /\ ThreadUnchanged

\* the listeners Publish iterates for the request
HandlersOf(r) == listeners[r.d][TypeOf(r.e)]

\* the request after its listener i returned err: on to the next listener
Advance(r, err) ==
  LET errors == IF err = "nil" THEN r.errors
                ELSE Append(r.errors, <<HandlersOf(r)[r.i].name, err>>)
  IN IF r.i = Len(HandlersOf(r))
     THEN [Idle EXCEPT !.op = "published", !.e = r.e, !.d = r.d, !.errors = errors]
     ELSE [r EXCEPT !.i = r.i + 1, !.at = "lookup", !.out = "none", !.errors = errors]

\* a service publishes event e on behalf of the request
StartPublish(t) ==
  /\ Serving
  /\ Ready(t)
  /\ calls < MaxOps
  /\ \E d \in PublishingDispatchers, e \in EventIDs :
       th' = [th EXCEPT ![t] =
                IF listeners[d][TypeOf(e)] = <<>>
                THEN [Idle EXCEPT !.op = "published", !.e = e, !.d = d]
                ELSE [Idle EXCEPT !.op = "publish", !.e = e, !.d = d, !.i = 1,
                                  !.at = "lookup"]]
  /\ calls' = calls + 1
  /\ UNCHANGED <<container, made, wired, listeners, log, done>>
  /\ UNCHANGED <<pc, routes, appRoutes, lastPublish, published, lastCall>>

\* step 1 and 2 of the wrapper: look the pair up, return when it succeeded before
Lookup(t) ==
  /\ th[t].op = "publish" /\ th[t].at = "lookup"
  /\ LET r == th[t]
         h == HandlersOf(r)[r.i]
     IN th' = [th EXCEPT ![t] =
                 IF ~HasLogRepository(h.group) THEN [r EXCEPT !.at = "effect"]
                 ELSE IF HasSuccess(log, r.e, h.name) THEN Advance(r, "nil")
                 ELSE [r EXCEPT !.at = "pending"]]
  /\ UNCHANGED <<container, made, wired, listeners, log, done>>
  /\ ThreadUnchanged

\* step 3 of the wrapper: record the attempt
SavePending(t) ==
  /\ th[t].op = "publish" /\ th[t].at = "pending"
  /\ LET r == th[t]
         h == HandlersOf(r)[r.i]
     IN /\ log' = Save(log, Row(r.e, h.name, "pending"))
        /\ th' = [th EXCEPT ![t] = [r EXCEPT !.at = "effect"]]
  /\ UNCHANGED <<container, made, wired, listeners, done>>
  /\ ThreadUnchanged

\* step 3 of the wrapper: the side effect runs; the dispatcher recovers a panic
SideEffect(t) ==
  /\ th[t].op = "publish" /\ th[t].at = "effect"
  /\ \E out \in Outcomes :
       LET r == th[t]
           h == HandlersOf(r)[r.i]
       IN /\ done' = IF out = "ok" THEN Ran(done, r.e, h.name) ELSE done
          /\ th' = [th EXCEPT ![t] =
                      IF HasLogRepository(h.group) /\ out # "panic"
                      THEN [r EXCEPT !.at = "save", !.out = out]
                      ELSE Advance(r, IF out = "ok" THEN "nil" ELSE out)]
  /\ UNCHANGED <<container, made, wired, listeners, log>>
  /\ ThreadUnchanged

\* step 4 of the wrapper: record the outcome
SaveOutcome(t) ==
  /\ th[t].op = "publish" /\ th[t].at = "save"
  /\ LET r == th[t]
         h == HandlersOf(r)[r.i]
     IN /\ log' = Save(log, Row(r.e, h.name,
                                IF r.out = "ok" THEN "success" ELSE "failed"))
        /\ th' = [th EXCEPT ![t] = Advance(r, IF r.out = "ok" THEN "nil" ELSE r.out)]
  /\ UNCHANGED <<container, made, wired, listeners, done>>
  /\ ThreadUnchanged


(***************************************************************************)
(* The initial state: `container = &Container{projectID, logger}`.         *)
(***************************************************************************)
\* the maps from event type to listener a listener group may return
RouteMaps(names) == UNION {[ts -> {n}] : ts \in SUBSET EventTypes, n \in names}

\* the listener names a group may use: up to renaming, every way in which the
\* three groups share names or do not
NamesOf(g) ==
  CASE g = "Message" -> {"store-message"}
    [] g = "MessageThread" -> {"store-message", "update-thread"}
    [] g = "Heartbeat" -> ListenerNames

\* the name of the listeners of a group that shares no name with another
OwnName(g) ==
  CASE g = "Message" -> "store-message"
    [] g = "MessageThread" -> "update-thread"
    [] g = "Heartbeat" -> "update-heartbeat-timestamp"

RouteTables == {rt \in [Groups -> RouteMaps(ListenerNames)] :
                  \A g \in Groups : rt[g] \in RouteMaps(NamesOf(g))}

InitContainer ==
  /\ pc = "RegisterMessageListeners"
  /\ container = [x \in Singletons |-> 0]
  /\ made = [x \in Components |-> 0]
  /\ wired = {}
  /\ listeners = <<>>
  /\ appRoutes = <<>>
  /\ log = EmptyBag
  /\ done = [k \in EventIDs \X ListenerNames |-> 0]
  /\ lastPublish = [event |-> 0]
  /\ published = 0
  /\ calls = 0
  /\ lastCall = [component |-> "none", id |-> 0, before |-> 0]
  /\ th = [t \in Threads |-> Idle]

Init == InitContainer /\ routes \in RouteTables

\* every group listens to every event type, each under its own name
InitAllRoutes ==
  /\ InitContainer
  /\ routes = [g \in Groups |-> [t \in EventTypes |-> OwnName(g)]]

Next == NewContainer \/ Publish

Spec == Init /\ [][Next]_vars

\* startup followed by resolution calls
NextResolve == NewContainer \/ ResolveCall

SpecResolve == Init /\ [][NextResolve]_vars

\* startup followed by requests served concurrently
NextConc ==
  \/ NewContainer
  \/ \E t \in Threads : ReadField(t)
  \/ \E t \in Threads : FinishAccessor(t)
  \/ \E t \in Threads : StartPublish(t)
  \/ \E t \in Threads : Lookup(t)
  \/ \E t \in Threads : SavePending(t)
  \/ \E t \in Threads : SideEffect(t)
  \/ \E t \in Threads : SaveOutcome(t)

SpecConc == InitAllRoutes /\ [][NextConc]_vars

(***************************************************************************)
(* Properties.                                                             *)
(***************************************************************************)
Keys == EventIDs \X ListenerNames

\* the number of success rows the log holds for event e and listener n
SuccessRows(e, n) ==
  IF Row(e, n, "success") \in BagToSet(log) THEN log[Row(e, n, "success")] ELSE 0

\* the listeners of event type t in the order NewContainer registers the groups
GroupListeners(g, t) == IF t \in DOMAIN routes[g] THEN <<Handler(g, t)>> ELSE <<>>

ExpectedOrder(t) ==
  GroupListeners("Message", t) \o GroupListeners("MessageThread", t)
    \o GroupListeners("Heartbeat", t)

\* two groups register a listener of the same name for the same event type
DuplicateRoutes ==
  \E g1, g2 \in Groups, t \in EventTypes :
    /\ g1 # g2
    /\ t \in DOMAIN routes[g1] /\ t \in DOMAIN routes[g2]
    /\ routes[g1][t] = routes[g2][t]

\* C1: for every listener of every group, the side effect of a listener succeeds
\* at most once for one event id however often the event is delivered in sequence,
\* and the log never holds more than one success row for the pair.
C1_SideEffectAtMostOnce ==
  \A k \in Keys : done[k] <= 1 /\ SuccessRows(k[1], k[2]) <= 1

\* C1, for the groups built with the log repository (Message, MessageThread): the
\* side effect of their listeners succeeds at most once for one event id, and the
\* log then holds exactly one success row for the pair.
C1_GuardedGroupsAtMostOnce ==
  \A d \in 1..Len(listeners), t \in EventTypes :
   \A i \in 1..Len(listeners[d][t]) :
    HasLogRepository(listeners[d][t][i].group) =>
      \A e \in EventIDs :
        LET n == listeners[d][t][i].name
        IN TypeOf(e) = t => done[<<e, n>>] <= 1 /\ SuccessRows(e, n) = done[<<e, n>>]

\* C2: one Publish invokes every listener of the event's type exactly once, and
\* each listener ends as it would have ended alone on the log as it was before the
\* Publish, whatever the other listeners did; Publish reports success only when no
\* listener failed, and otherwise the (listenerName, error) pairs of those that did.
C2_FailuresIsolated ==
  [][published' # published =>
       LET p == lastPublish'
           hs == listeners[p.dispatcher][TypeOf(p.event)]
           alone(i) == Deliver(hs[i], p.event, p.outs[i], [log |-> log, done |-> done])
           failed == {i \in 1..Len(hs) : alone(i).err # "nil"}
       IN /\ p.invoked = hs
          /\ Len(p.errors) = Cardinality(failed)
          /\ \A i \in failed :
               \E j \in 1..Len(p.errors) : p.errors[j] = <<hs[i].name, alone(i).err>>
          /\ p.ok <=> failed = {}
          /\ \A i \in 1..Len(hs) :
               done'[<<p.event, hs[i].name>>] = alone(i).done[<<p.event, hs[i].name>>]]_vars

\* C2 witness: a Publish whose first listener failed and whose second succeeded
C2_Witness ==
  /\ lastPublish.event # 0
  /\ Len(lastPublish.invoked) >= 2
  /\ lastPublish.outs[1] # "ok" /\ lastPublish.outs[2] = "ok"
  /\ lastPublish.errors = <<<<lastPublish.invoked[1].name, lastPublish.outs[1]>>>>
  /\ done[<<lastPublish.event, lastPublish.invoked[2].name>>] = 1

\* C3: when NewContainer has returned, the listeners of every event type stand in
\* the table in the order Message, MessageThread, Heartbeat, whatever order the
\* loops over the routes took, and Publish invokes them in that order.
C3_RegistrationOrder ==
  /\ Serving =>
       \A d \in 1..Len(listeners), t \in EventTypes : listeners[d][t] = ExpectedOrder(t)
  /\ lastPublish.event # 0 =>
       lastPublish.invoked = ExpectedOrder(TypeOf(lastPublish.event))

\* C3 witness: every group registered two routes and a Publish invoked three listeners
C3_Witness ==
  /\ \A g \in Groups : DOMAIN routes[g] = EventTypes
  /\ lastPublish.event # 0
  /\ Len(lastPublish.invoked) = 3

\* C4: the log holds at most one success row for any event id and listener name.
C4_OneSuccessRow == \A k \in Keys : SuccessRows(k[1], k[2]) <= 1

\* C4 witness: two requests ran the side effect of the same listener for the same
\* event, and the log holds its success row
C4_Witness ==
  \E k \in Keys : done[k] = 2 /\ SuccessRows(k[1], k[2]) = 1

C6_SubscribeBeforeServing ==
  [][/\ listeners' # listeners => pc \notin {"returned", "fatal"} /\ published = 0
     /\ published' # published => pc = "returned" /\ listeners' = listeners]_vars

\* C6 witness: an event was published to listeners registered at startup
C6_Witness ==
  /\ pc = "returned"
  /\ published > 0
  /\ Len(lastPublish.invoked) > 0

\* C7: the dispatcher, the database handle and the application are constructed at
\* most once and their accessors return that instance; every other accessor
\* constructs a new instance on each call.
C7_SingletonsMemoized ==
  /\ \A x \in Singletons : made[x] <= 1 /\ container[x] = made[x]
  /\ lastCall.component \in Singletons =>
       /\ lastCall.id = container[lastCall.component]
       /\ lastCall.before = made[lastCall.component]
  /\ lastCall.component \in Components \ Singletons =>
       /\ lastCall.id = lastCall.before + 1
       /\ made[lastCall.component] >= lastCall.id

\* C7 witness: after a fresh service was resolved, the dispatcher was resolved again
C7_Witness ==
  /\ lastCall.component = "EventDispatcher"
  /\ lastCall.id = 1
  /\ calls = 2
  /\ made["MessageService"] = 3

\* C8: every service the container constructs was given the shared dispatcher.
C8_EveryServiceHasDispatcher ==
  \A w \in wired : w.dispatcher # 0 /\ w.dispatcher = container["EventDispatcher"]

\* C9: the catch-all route is the last route of the application: no route is
\* registered after it, and when NewContainer returns it follows the three groups
\* of routes.
C9_SwaggerLast ==
  /\ \A i \in 1..Len(appRoutes) : appRoutes[i].route = "/*" => i = Len(appRoutes)
  /\ pc = "returned" =>
       /\ Len(appRoutes) = 4
       /\ appRoutes[4].route = "/*"
       /\ {appRoutes[i].route : i \in 1..3} =
            {"MessageHandler", "MessageThreadHandler", "HeartbeatHandler"}
       /\ \A i \in 1..4 : appRoutes[i].app = container["App"]

\* C9 witness: NewContainer returned with the catch-all route registered
C9_Witness == pc = "returned" /\ Len(appRoutes) = 4 /\ appRoutes[4].route = "/*"

\* C10: when NewContainer has returned the three fields are set; a request that
\* calls App(), DB() or EventDispatcher() reads a set field and returns it, and no
\* second instance is ever constructed.
C10_ReadOnlyAfterStartup ==
  /\ \A x \in Singletons : made[x] <= 1
  /\ pc = "returned" => \A x \in Singletons : container[x] = 1 /\ made[x] = 1
  /\ \A t \in Threads :
       th[t].op \in {"resolve", "resolved"} => th[t].got = container[th[t].x] /\ th[t].got # 0

\* C10 witness: two requests are inside the same accessor at the same time
C10_Witness ==
  /\ th["r1"].op = "resolve" /\ th["r2"].op = "resolve"
  /\ th["r1"].x = th["r2"].x

====
